---- MODULE Spec2Model ----
(***************************************************************************)
(* Model of mmio::MatrixMarketFile (include/mmio/MatrixMarketFile.hpp,     *)
(* src/MatrixMarketFile.cpp): the memory-mapped handle, edge(n), the typed *)
(* edge_iterator (operator*, operator++) and the edges() ranges, driven by *)
(* a client that calls edge(), walks a range as a range-for loop does,     *)
(* calls release() and finally destroys the handle.                        *)
(*                                                                         *)
(* Bytes are one-character strings; offsets are 0-based as in the code, so *)
(* base_[k] is file[k + 1].  A pointer is [b, off]: b is the base it was   *)
(* computed from ("map" = the address mmap returned, "null" = nullptr).    *)
(* A double is the exact decimal [num, den] with den a power of ten.       *)
(***************************************************************************)
EXTENDS Integers, Sequences, FiniteSets, TLC

(***************************************************************************)
(* Bounds of the model and the inputs it enumerates.                       *)
(***************************************************************************)
MaxEdges == 3          \* edge lines of a generated file
MaxCount == 2          \* explicit release() calls are counted up to this many

\* Edge lines the generated files are built from: different widths, with
\* no, one and two attributes, and one whose first token is not an integer.
LinePlainDbl == <<"3", " ", "5", " ", "2", ".", "5", "\n">>
LineNoAttr == <<"2", " ", "2", "\n">>
LineExpRow == <<"1", "e", "1", " ", "2", "\n">>
LineTwoAttr == <<"1", " ", "2", " ", "3", " ", "4", "\n">>
LineSet == {LinePlainDbl, LineNoAttr, LineExpRow, LineTwoAttr}

\* The edge lines of the file printed by examples/mmio.cpp's scenario.
ExampleLines ==
  << <<"1", " ", "1", " ", "1", "\n">>, <<"2", " ", "2", " ", "2", "\n">>,
     <<"1", " ", "3", " ", "3", "\n">>, <<"3", " ", "1", " ", "1", "\n">> >>

\* Attribute type lists Vs... a range is instantiated with.
TypeLists == {<< >>, <<"int32">>, <<"double">>, <<"int32", "int32">>}

RECURSIVE Flatten(_)
Flatten(ls) == IF ls = << >> THEN << >> ELSE Head(ls) \o Flatten(Tail(ls))

DigitChars == <<"0", "1", "2", "3", "4", "5", "6", "7", "8", "9">>

\* Banner and size line "9 9 <nnz>": what mm_read_banner and
\* mm_read_mtx_crd_size consume before ftell() gives i_.
Header(nnz) == <<"%", "\n", "9", " ", "9", " ", DigitChars[nnz + 1], "\n">>

LineSeqs == (UNION {[1..k -> LineSet] : k \in 0..MaxEdges}) \cup {ExampleLines}

VARIABLES
  file,        \* the bytes of the mapped file
  n_, m_, nnz_,\* rows, columns, edges of the size line
  base_,       \* "map" or "null"
  i_, e_,      \* offset of the first edge, length of the file
  mapped,      \* the kernel still has the mapping
  munmaps,     \* munmap() calls made
  releases,    \* release() calls made by the client (counted up to MaxCount)
  alive,       \* the handle has not been destroyed
  pc,          \* client: "idle", "loop", "inc", "done"; "crashed" after a
               \* fault, "undefined" after a read of unmapped memory that
               \* did not fault (the run is followed no further)
  ret,         \* result of the client's last edge(n) call, or NoRet
  rng,         \* the edge_range being walked, or NoRange
  it,          \* the loop's edge_iterator
  out          \* records the loop has produced

vars == <<file, n_, m_, nnz_, base_, i_, e_, mapped, munmaps, releases, alive,
          pc, ret, rng, it, out>>

handle == <<file, n_, m_, nnz_, i_, e_>>

NoRet == [n |-> -1, b |-> "none", off |-> -1]
NoRange == [full |-> FALSE, j |-> -1, k |-> -1, Vs |-> << >>,
            begin_ |-> [b |-> "none", off |-> -1], end_ |-> [b |-> "none", off |-> -1]]

(***************************************************************************)
(* Memory.  Inside the file the mapping holds the file's bytes; the rest   *)
(* of the last page reads as NUL.                                          *)
(***************************************************************************)
NUL == "NUL"

Mem(p) == IF 0 <= p /\ p < e_ THEN file[p + 1] ELSE NUL

\* A read through pointer c hits the live mapping.
Live(c) == c.b = "map" /\ mapped

(***************************************************************************)
(* <cstdlib> number parsing, as used by edge_iterator::get.                *)
(***************************************************************************)
isspace(c) == c \in {" ", "\n", "\t"}

isdigit(c) == c \in {"0", "1", "2", "3", "4", "5", "6", "7", "8", "9"}

DigitVal(c) == CHOOSE d \in 0..9 : DigitChars[d + 1] = c

RECURSIVE SkipSpace(_)
SkipSpace(p) == IF isspace(Mem(p)) THEN SkipSpace(p + 1) ELSE p

\* The digits at p: value, count and the offset of the first non-digit.
RECURSIVE Digits(_, _, _)
Digits(p, val, cnt) ==
  IF isdigit(Mem(p)) THEN Digits(p + 1, val * 10 + DigitVal(Mem(p)), cnt + 1)
  ELSE [val |-> val, cnt |-> cnt, end |-> p]

\* Offset after an optional sign at p, and the sign.
SignAt(p) == IF Mem(p) = "-" THEN [neg |-> TRUE, p |-> p + 1]
             ELSE IF Mem(p) = "+" THEN [neg |-> FALSE, p |-> p + 1]
             ELSE [neg |-> FALSE, p |-> p]

RECURSIVE Pow10(_)
Pow10(k) == IF k <= 0 THEN 1 ELSE 10 * Pow10(k - 1)

RECURSIVE Reduce(_, _)
Reduce(num, den) ==
  IF num = 0 THEN [num |-> 0, den |-> 1]
  ELSE IF den > 1 /\ num % 10 = 0 THEN Reduce(num \div 10, den \div 10)
  ELSE [num |-> num, den |-> den]

IntVal(v) == [num |-> v, den |-> 1]

\* strtol(p, &e, 10): val, e, and look = the last byte it examined.  With
\* no digits nothing is converted: the value is 0 and e is p itself.
StrtolDigits(p, s, d) ==
  IF d.cnt = 0 THEN [val |-> IntVal(0), end |-> p, look |-> s.p]
  ELSE [val |-> IntVal(IF s.neg THEN 0 - d.val ELSE d.val), end |-> d.end,
        look |-> d.end]

StrtolSign(p, s) == StrtolDigits(p, s, Digits(s.p, 0, 0))

strtol(p) == StrtolSign(p, SignAt(SkipSpace(p)))

\* strtod(p, &e) / strtof(p, &e) on decimal input: digits with an optional
\* '.', then an exponent that counts only if it has a digit.  s is the
\* sign, ip and fp the integer and fraction digits, es and ed the
\* exponent's sign and digits.
StrtodValue(s, ip, fp, ex) ==
  Reduce((IF s.neg THEN 0 - 1 ELSE 1) * (ip.val * Pow10(fp.cnt) + fp.val) * Pow10(ex),
         Pow10(fp.cnt) * Pow10(0 - ex))

StrtodExp(p, s, ip, fp, hasE, es, ed) ==
  IF ip.cnt + fp.cnt = 0
    THEN [val |-> IntVal(0), end |-> p, look |-> fp.end]
  ELSE IF hasE /\ ed.cnt > 0
    THEN [val |-> StrtodValue(s, ip, fp, IF es.neg THEN 0 - ed.val ELSE ed.val),
          end |-> ed.end, look |-> ed.end]
  ELSE [val |-> StrtodValue(s, ip, fp, 0), end |-> fp.end,
        look |-> IF hasE THEN ed.end ELSE fp.end]

StrtodExpSign(p, s, ip, fp, es) ==
  StrtodExp(p, s, ip, fp, Mem(fp.end) \in {"e", "E"}, es, Digits(es.p, 0, 0))

StrtodFrac(p, s, ip, fp) == StrtodExpSign(p, s, ip, fp, SignAt(fp.end + 1))

StrtodInt(p, s, ip) ==
  StrtodFrac(p, s, ip,
             IF Mem(ip.end) = "." THEN Digits(ip.end + 1, 0, 0)
             ELSE [val |-> 0, cnt |-> 0, end |-> ip.end])

StrtodSign(p, s) == StrtodInt(p, s, Digits(s.p, 0, 0))

strtod(p) == StrtodSign(p, SignAt(SkipSpace(p)))

\* Conversion of a parsed double to an integer type: truncation toward zero.
\* Every number of these files is far inside the 32-bit range.
Trunc(v) == IF v.num >= 0 THEN v.num \div v.den ELSE 0 - ((0 - v.num) \div v.den)

(***************************************************************************)
(* edge_iterator::get<U>.  The int32 test is an `if` of its own, not the   *)
(* head of the else-if chain that follows it: for U = int32 the chain's    *)
(* final else runs as well and overwrites both u and e with strtod's.      *)
(***************************************************************************)
IsIntegral(U) == U \in {"int32", "uint32", "int64", "uint64"}

Max(a, b) == IF a >= b THEN a ELSE b

\* The library call the else-if chain makes for U.  strtoul has strtol's
\* grammar (they differ on a negated value only, and no line here has a
\* sign); strtof has strtod's.
ChainCall(U) ==
  IF U = "uint32" THEN "strtoul"
  ELSE IF U = "int64" THEN "strtol"
  ELSE IF U = "uint64" THEN "strtoul"
  ELSE IF U = "float" THEN "strtof"
  ELSE "strtod"

Call(fn, p) == IF fn \in {"strtol", "strtoul"} THEN strtol(p) ELSE strtod(p)

GetResult(U, first, chain) ==
  [val |-> IF IsIntegral(U) THEN IntVal(Trunc(chain.val)) ELSE chain.val,
   end |-> chain.end,
   look |-> Max(first.look, chain.look)]

get(U, p) ==
  GetResult(U,
            IF U = "int32" THEN strtol(p) ELSE [val |-> IntVal(0), end |-> p, look |-> p],
            Call(ChainCall(U), p))

\* The attribute arguments get<Vs>(i)... of value_type(u, v, ...): order[k]
\* is the k-th argument evaluated; each call moves the shared pointer i.
RECURSIVE GetArgs(_, _, _, _, _, _)
GetArg(Vs, order, k, vals, look, r) ==
  GetArgs(Vs, order, k + 1, r.end, [vals EXCEPT ![order[k]] = r.val], Max(look, r.look))

GetArgs(Vs, order, k, p, vals, look) ==
  IF k > Len(order) THEN [vals |-> vals, end |-> p, look |-> look]
  ELSE GetArg(Vs, order, k, vals, look, get(Vs[order[k]], p))

\* The arguments of a parenthesised constructor call are indeterminately
\* sequenced: builds evaluate them first to last or last to first.
EvalOrders(Vs) ==
  {[k \in 1..Len(Vs) |-> k], [k \in 1..Len(Vs) |-> Len(Vs) + 1 - k]}

\* edge_iterator::operator* at offset p of the live mapping: the record,
\* with the final scan pointer and the last byte any call examined.
StarTuple(p, u, v, a) ==
  [pos |-> p, rec |-> <<u.val.num - 1, v.val.num - 1>> \o a.vals,
   scan |-> a.end, look |-> a.look]

StarV(p, Vs, order, u, v) ==
  StarTuple(p, u, v,
            GetArgs(Vs, order, 1, v.end, [k \in 1..Len(Vs) |-> IntVal(0)],
                    Max(u.look, v.look)))

StarU(p, Vs, order, u) == StarV(p, Vs, order, u, get("int32", u.end))

Star(p, Vs, order) == StarU(p, Vs, order, get("int32", p))

\* std::strchr(p, '\n') in the live mapping; -1 is a null result.
RECURSIVE strchrNL(_)
strchrNL(p) == IF Mem(p) = "\n" THEN p
               ELSE IF p >= e_ THEN -1
               ELSE strchrNL(p + 1)

\* edge_iterator::operator++ on a pointer into the live mapping.
\* AdvanceTo without the increment: the cursor is left on the newline.
AdvanceToNewline(c, q) ==
  IF q = -1 THEN [b |-> "null", off |-> 0] ELSE [b |-> c.b, off |-> q]

AdvanceTo(c, q) ==
  IF q = -1 THEN [b |-> "null", off |-> 1] ELSE [b |-> c.b, off |-> q + 1]

Advance(c) == AdvanceTo(c, strchrNL(c.off))

(***************************************************************************)
(* MatrixMarketFile::edge.                                                 *)
(***************************************************************************)
Approx(n) == i_ + (n * (e_ - i_)) \div nnz_

RECURSIVE ScanBack(_)
ScanBack(approx) ==
  IF i_ <= approx /\ Mem(approx) # "\n" THEN ScanBack(approx - 1) ELSE approx

\* edge without ++approx: the scan's result is the newline itself.
edgeOnNewline(n) ==
  IF n = 0 THEN i_
  ELSE IF n = nnz_ THEN e_
  ELSE ScanBack(Approx(n))

\* edge returning base_ for n == 0, the offset i_ forgotten.
edgeFromBase(n) ==
  IF n = 0 THEN 0
  ELSE IF n = nnz_ THEN e_
  ELSE ScanBack(Approx(n)) + 1

edge(n) ==
  IF n = 0 THEN i_
  ELSE IF n = nnz_ THEN e_
  ELSE ScanBack(Approx(n)) + 1

\* The two ends of a read of unmapped memory: a fault, or a run that goes
\* on with whatever bytes were there.
Crash == [b |-> "crashed", off |-> -1]

Undefined == [b |-> "undefined", off |-> -1]

\* The outcomes of a call edge(n).  With base_ == nullptr the two early
\* returns still produce nullptr + offset; the backward scan reads
\* base_[approx], which is unmapped.
EdgeResults(n) ==
  IF base_ = "map" \/ n = 0 \/ n = nnz_ THEN {[b |-> base_, off |-> edge(n)]}
  ELSE {Crash, Undefined}

(***************************************************************************)
(* Construction: the state after MatrixMarketFile(path) on a file of the   *)
(* documented format, nnz_ edge lines after the size line.                 *)
(***************************************************************************)
Init ==
  /\ \E ls \in LineSeqs :
       /\ file = Header(Len(ls)) \o Flatten(ls)
       /\ nnz_ = Len(ls)
       /\ i_ = Len(Header(Len(ls)))
       /\ e_ = Len(Header(Len(ls)) \o Flatten(ls))
  /\ n_ = 9
  /\ m_ = 9
  /\ base_ = "map"
  /\ mapped = TRUE
  /\ munmaps = 0
  /\ releases = 0
  /\ alive = TRUE
  /\ pc = "idle"
  /\ ret = NoRet
  /\ rng = NoRange
  /\ it = NoRange.begin_
  /\ out = << >>

(***************************************************************************)
(* release() and the destructor.                                           *)
(***************************************************************************)
\* release without the test of base_: every call unmaps.
releaseUnguarded ==
  /\ munmaps' = munmaps + 1
  /\ mapped' = FALSE
  /\ base_' = "null"

release ==
  /\ IF base_ # "null"
       THEN munmaps' = munmaps + 1 /\ mapped' = FALSE
       ELSE UNCHANGED <<munmaps, mapped>>
  /\ base_' = "null"

Release ==
  /\ alive
  /\ pc = "idle"
  /\ release
  /\ releases' = IF releases < MaxCount THEN releases + 1 ELSE releases
  /\ UNCHANGED <<handle, alive, pc, ret, rng, it, out>>

Destroy ==
  /\ alive
  /\ pc = "idle"
  /\ release
  /\ alive' = FALSE
  /\ UNCHANGED <<handle, releases, pc, ret, rng, it, out>>

(***************************************************************************)
(* The client: a lone edge(n) call, and a range-for loop over edges<Vs>.   *)
(***************************************************************************)
Edge(n) ==
  /\ alive
  /\ pc = "idle"
  /\ \E c \in EdgeResults(n) :
       IF c \in {Crash, Undefined} THEN pc' = c.b /\ ret' = NoRet
       ELSE pc' = pc /\ ret' = [n |-> n, b |-> c.b, off |-> c.off]
  /\ UNCHANGED <<handle, base_, mapped, munmaps, releases, alive, rng, it, out>>

StartLoop(full, j, k, Vs) ==
  /\ alive
  /\ pc = "idle"
  /\ \E b \in EdgeResults(j), e \in EdgeResults(k) :
       IF b \in {Crash, Undefined} \/ e \in {Crash, Undefined}
         THEN pc' \in {c.b : c \in {b, e} \cap {Crash, Undefined}} /\ UNCHANGED <<rng, it>>
         ELSE /\ pc' = "loop"
              /\ rng' = [full |-> full, j |-> j, k |-> k, Vs |-> Vs,
                         begin_ |-> b, end_ |-> e]
              /\ it' = b
  /\ ret' = NoRet
  /\ out' = << >>
  /\ UNCHANGED <<handle, base_, mapped, munmaps, releases, alive>>

\* edges<Vs...>(mm)
EdgesAll(Vs) == StartLoop(TRUE, 0, nnz_, Vs)

\* edges<Vs...>(mm, j, k)
EdgesSub(j, k, Vs) == StartLoop(FALSE, j, k, Vs)

\* Nothing of the loop is left after a fault or a read of unmapped memory.
Dead == rng' = NoRange /\ it' = NoRange.begin_ /\ out' = << >>

\* it != end, then the loop variable is initialised from *it.
Deref ==
  /\ pc = "loop"
  /\ it # rng.end_
  /\ IF Live(it)
       THEN \E r \in {Star(it.off, rng.Vs, order) : order \in EvalOrders(rng.Vs)} :
              \/ pc' = "inc" /\ out' = Append(out, r) /\ UNCHANGED <<rng, it>>
              \/ r.look >= e_ /\ pc' = "crashed" /\ Dead
       ELSE pc' \in {"crashed", "undefined"} /\ Dead
  /\ UNCHANGED <<handle, base_, mapped, munmaps, releases, alive, ret>>

\* ++it
Inc ==
  /\ pc = "inc"
  /\ IF Live(it)
       THEN pc' = "loop" /\ it' = Advance(it) /\ UNCHANGED <<rng, out>>
       ELSE pc' \in {"crashed", "undefined"} /\ Dead
  /\ UNCHANGED <<handle, base_, mapped, munmaps, releases, alive, ret>>

\* it == end: the loop is over.
LoopEnd ==
  /\ pc = "loop"
  /\ it = rng.end_
  /\ pc' = "done"
  /\ UNCHANGED <<handle, base_, mapped, munmaps, releases, alive, ret, rng, it, out>>

\* The loop's scope ends; the client goes on.
LoopExit ==
  /\ pc = "done"
  /\ pc' = "idle"
  /\ rng' = NoRange
  /\ it' = NoRange.begin_
  /\ out' = << >>
  /\ UNCHANGED <<handle, base_, mapped, munmaps, releases, alive, ret>>

\* Callers respect edge's assertion 0 <= n <= nnz_, and j <= k.
Next ==
  \/ \E n \in 0..nnz_ : Edge(n)
  \/ \E Vs \in TypeLists : EdgesAll(Vs)
  \/ \E j \in 0..nnz_, k \in 0..nnz_, Vs \in TypeLists : j <= k /\ EdgesSub(j, k, Vs)
  \/ Deref
  \/ Inc
  \/ LoopEnd
  \/ LoopExit
  \/ Release
  \/ Destroy

Spec == Init /\ [][Next]_vars

(***************************************************************************)
(* Reference notions, read off the file's bytes alone.                     *)
(***************************************************************************)
\* The first byte of every edge line, and total_length after the last one.
LineStarts == {i_} \cup {q + 1 : q \in {r \in i_..(e_ - 1) : file[r + 1] = "\n"}}

\* The start of the n-th edge line (n = nnz_: total_length).
NthStart(n) == CHOOSE q \in LineStarts : Cardinality({r \in LineStarts : r < q}) = n

\* The newline that ends the line holding offset p, and that line from p on.
NlOf(p) == CHOOSE q \in p..(e_ - 1) :
             file[q + 1] = "\n" /\ \A r \in p..(q - 1) : file[r + 1] # "\n"

LineAt(p) == SubSeq(file, p + 1, NlOf(p) + 1)

ExampleFile == Header(Len(ExampleLines)) \o Flatten(ExampleLines)

ExampleRecords ==
  << <<0, 0, IntVal(1)>>, <<1, 1, IntVal(2)>>, <<0, 2, IntVal(3)>>, <<2, 0, IntVal(1)>> >>

\* A loop over a range taken from the mapped handle.
InLoop == pc \in {"loop", "inc", "done"} /\ Live(rng.begin_)

\* The numeric tokens of a line, and: every edge line has a row, a column
\* and a token for each attribute type of Vs.
Tokens(l) ==
  Cardinality({x \in 1..Len(l) : l[x] \notin {" ", "\n"} /\ (x = 1 \/ l[x - 1] = " ")})

LinesCarry(Vs) == \A q \in LineStarts \ {e_} : Tokens(LineAt(q)) >= 2 + Len(Vs)

\* What holds of a walk over the full range at every point of it.
C1_Visits ==
  (InLoop /\ rng.full) =>
    /\ Len(out) <= nnz_
    /\ \A x \in 1..Len(out) : out[x].pos = NthStart(x - 1)
    /\ pc \in {"loop", "done"} => it.off = NthStart(Len(out))
    /\ pc \in {"loop", "done"} => ((it = rng.end_) <=> (Len(out) = nnz_))
    /\ pc = "done" => Len(out) = nnz_
    /\ (pc = "done" /\ file = ExampleFile /\ rng.Vs = <<"int32">>)
         => [x \in 1..Len(out) |-> out[x].rec] = ExampleRecords

(***************************************************************************)
(* C1.  Walking the full range edges(mm) visits the edge lines one by one  *)
(* in file order: the k-th record is read at the start of the k-th line,   *)
(* the iterator is at the start of the next line whenever the loop tests   *)
(* it, it meets the end cursor exactly after nnz_ records, and the file of *)
(* the example yields (0,0,1), (1,1,2), (0,2,3), (2,0,1).  The walk does   *)
(* not fault when every line carries the fields asked for.                 *)
(***************************************************************************)
C1_FullRangeYieldsEveryEdge ==
  /\ []C1_Visits
  /\ [][(InLoop /\ rng.full /\ LinesCarry(rng.Vs)) => pc' \notin {"crashed", "undefined"}]_vars

C1_Witness ==
  /\ pc = "done" /\ rng.full /\ Live(rng.begin_)
  /\ file = ExampleFile /\ rng.Vs = <<"int32">> /\ Len(out) = nnz_

(***************************************************************************)
(* C2.  A finished loop over edges(mm, j, k) has produced the records of   *)
(* the edge lines j .. k-1, in order: what the full range yields there.    *)
(***************************************************************************)
C2_SubRangeIsSliceOfFullRange ==
  (pc = "done" /\ Live(rng.begin_) /\ ~rng.full) =>
    /\ Len(out) = rng.k - rng.j
    /\ \A x \in 1..Len(out) :
         /\ out[x].pos = NthStart(rng.j + x - 1)
         /\ out[x].rec \in {Star(NthStart(rng.j + x - 1), rng.Vs, o).rec :
                              o \in EvalOrders(rng.Vs)}

(***************************************************************************)
(* C3.  edge(n) on the mapped handle is the first byte of the n-th edge    *)
(* line, and total_length for n = nnz_.                                    *)
(***************************************************************************)
C3_EdgeFindsNthLine ==
  (ret # NoRet /\ ret.b = "map") => ret.off = NthStart(ret.n)

\* off is edge_data_start, total_length, or follows a newline of the edge data.
OnBoundary(off) ==
  \/ off = i_
  \/ off = e_
  \/ i_ < off /\ off < e_ /\ file[off] = "\n"

(***************************************************************************)
(* C4.  Every offset edge(n) returns on the mapped handle, to a caller or  *)
(* as an end of a range, is edge_data_start, total_length, or the offset   *)
(* right after a newline of the edge data; never below edge_data_start.    *)
(***************************************************************************)
C4_EdgeReturnsLineBoundary ==
  /\ (ret # NoRet /\ ret.b = "map") => OnBoundary(ret.off)
  /\ InLoop => OnBoundary(rng.begin_.off) /\ OnBoundary(rng.end_.off)

\* An interior index for which the scan lands on the start of a line that
\* is neither the first nor the n-th.
C4_Witness ==
  /\ ret # NoRet /\ ret.b = "map"
  /\ 0 < ret.n /\ ret.n < nnz_
  /\ ret.off # i_ /\ ret.off # NthStart(ret.n)

\* Well-formed lines, the types they are read with, and the tuple each denotes.
PlainCases ==
  {[text |-> LinePlainDbl, Vs |-> <<"double">>,
    rec |-> <<2, 4, [num |-> 25, den |-> 10]>>],
   [text |-> LineNoAttr, Vs |-> << >>, rec |-> <<1, 1>>],
   [text |-> LineTwoAttr, Vs |-> <<"int32", "int32">>,
    rec |-> <<0, 1, IntVal(3), IntVal(4)>>],
   [text |-> ExampleLines[3], Vs |-> <<"int32">>, rec |-> <<0, 2, IntVal(3)>>]}

(***************************************************************************)
(* C5.  A record read at the start of a line "r c a1 .. ak" with k         *)
(* attribute types is (r-1, c-1, a1, .., ak), the attributes in the order  *)
(* of the line's tokens.                                                   *)
(***************************************************************************)
C5_DerefYieldsLineTokens ==
  \A x \in 1..Len(out) : \A c \in PlainCases :
    (LineAt(out[x].pos) = c.text /\ rng.Vs = c.Vs) => out[x].rec = c.rec

(***************************************************************************)
(* C6.  release() is idempotent: munmap is called at most once, exactly    *)
(* when base_ is cleared; a destroyed handle has been unmapped once; and   *)
(* no step taken with base_ already null unmaps or changes the handle.     *)
(***************************************************************************)
C6_ReleaseIdempotent ==
  /\ [](/\ munmaps <= 1
        /\ (base_ = "null") <=> (munmaps = 1)
        /\ mapped <=> (munmaps = 0)
        /\ ~alive => (munmaps = 1 /\ base_ = "null"))
  /\ [][base_ = "null" => (munmaps' = munmaps /\ mapped' = mapped /\ base_' = base_
                            /\ handle' = handle)]_vars

\* Destroyed after more than one explicit release().
C6_Witness == ~alive /\ releases >= 2 /\ munmaps = 1

(***************************************************************************)
(* C7.  After release() no call of edge(n) or edges(...) hands out a       *)
(* cursor: none is ever computed from the cleared base address.            *)
(***************************************************************************)
C7_NoCursorAfterRelease ==
  /\ ret.b # "null"
  /\ rng.begin_.b # "null" /\ rng.end_.b # "null"

(***************************************************************************)
(* C8.  With nnz_ = 0, edge(0) is total_length and edges(mm) is empty:     *)
(* its begin cursor is its end cursor and the loop produces nothing.       *)
(***************************************************************************)
C8_EmptyFile ==
  nnz_ = 0 =>
    /\ (ret # NoRet /\ ret.n = 0) => ret.off = e_
    /\ (pc \in {"loop", "inc", "done"} /\ rng.full) =>
         (rng.begin_ = rng.end_ /\ rng.begin_.off = e_ /\ out = << >> /\ pc # "inc")

C8_Witness == nnz_ = 0 /\ pc = "done" /\ rng.full /\ out = << >>

\* operator* with the grammar chosen by the field's type alone.
ClaimedGet(U, p) == IF IsIntegral(U) THEN strtol(p) ELSE strtod(p)

ClaimedTuple(u, v, as) ==
  [rec |-> <<u.val.num - 1, v.val.num - 1>> \o [k \in 1..Len(as) |-> as[k].val],
   scan |-> IF as = << >> THEN v.end ELSE as[Len(as)].end]

ClaimedV(Vs, u, v) ==
  ClaimedTuple(u, v, IF Vs = << >> THEN << >> ELSE <<ClaimedGet(Vs[1], v.end)>>)

ClaimedU(Vs, u) == ClaimedV(Vs, u, strtol(u.end))

ClaimedStar(p, Vs) == ClaimedU(Vs, strtol(p))

(***************************************************************************)
(* C9.  The row, the column and an int32 attribute are parsed with the     *)
(* integer grammar (the longest decimal-integer prefix, the scan pointer   *)
(* left right after it), a double attribute with the floating-point one.   *)
(* Stated for ranges with at most one attribute type.                      *)
(***************************************************************************)
C9_GrammarFollowsFieldType ==
  \A x \in 1..Len(out) :
    Len(rng.Vs) <= 1 =>
      \E c \in {ClaimedStar(out[x].pos, rng.Vs)} :
        out[x].rec = c.rec /\ out[x].scan = c.scan

(***************************************************************************)
(* C10.  A dereference consumes nothing past the newline of its own line,  *)
(* and a line with no attribute token yields zero for every attribute.     *)
(* Stated for ranges with at most one attribute type.                      *)
(***************************************************************************)
C10_DerefStaysOnItsLine ==
  \A x \in 1..Len(out) : Len(rng.Vs) <= 1 =>
    /\ out[x].scan <= NlOf(out[x].pos)
    /\ LineAt(out[x].pos) = LineNoAttr
         => out[x].rec = <<1, 1>> \o [k \in 1..Len(rng.Vs) |-> IntVal(0)]

====
